---- MODULE Spec2Model ----
(***************************************************************************)
(* Model of nixos-hydra-upgrade: the root command (cmd/root.go) and the    *)
(* flake metadata provider (nix.GetFlakeMetadata).                         *)
(*                                                                         *)
(* One process run is modelled.  pc is the place in PreRunE / Run the      *)
(* process has reached; every external call (hydra query, nix subprocess,  *)
(* ping, nixos-rebuild, reboot) is entered by Call and left by the Return  *)
(* action of that call, which also carries out the code that follows the   *)
(* call up to the next call or exit.  calls is the history of the external *)
(* calls with their results.  Strings that are formatted (flake url, host) *)
(* are sequences of characters.                                            *)
(***************************************************************************)
EXTENDS Integers, Sequences, FiniteSets, TLC

\* ---- bounds of the model ----
MaxHosts == 3        \* longest canary host list
MaxTime == 2         \* lastModified timestamps range over 0..MaxTime
MaxStatus == 2       \* hydra buildstatus ranges over 0..MaxStatus
MaxFinished == 2     \* hydra finished field ranges over 0..MaxFinished

\* ---- program constants ----
FinishedTrue == 1    \* root.go:73  build.Finished != 1
StatusSuccess == 0   \* root.go:77  build.BuildStatus != 0
ExitOk == 0          \* root.go:75, 91 os.Exit(0); return from Run
ExitFail == 1        \* root.go:79, 100 os.Exit(1)
ExitPanic == 2       \* exit status of a Go process ended by panic
NotExited == 0 - 1   \* the process is still running

\* ---- value domains ----
CanaryNames == {"c1", "c2"}
HostNames == {<<"a">>, <<"b">>}
Urls == {<<"u">>, <<"v">>}
FlakeRefs == {"flakeA", "flakeB"}
Operations == {"boot", "switch"}
ArgLists == {<<>>, <<"-x", "-y">>}

RECURSIVE SeqsUpTo(_, _)
SeqsUpTo(S, n) ==
  IF n = 0 THEN {<<>>}
  ELSE LET shorter == SeqsUpTo(S, n - 1)
       IN shorter \cup {Append(s, x) : s \in {t \in shorter : Len(t) = n - 1}, x \in S}

\* config.Config as read by Run
ZeroConfig ==
  [CanaryHosts |-> <<>>, Reboot |-> FALSE, Host |-> <<>>, Operation |-> "boot",
   Args |-> <<>>]
Configs ==
  [CanaryHosts : SeqsUpTo(CanaryNames, MaxHosts), Reboot : BOOLEAN,
   Host : HostNames \cup {<<>>}, Operation : Operations, Args : ArgLists]

\* hydra.Build
ZeroBuild == [Finished |-> 0, BuildStatus |-> 0]
Builds == [Finished : 0..MaxFinished, BuildStatus : 0..MaxStatus]

\* nix.FlakeMetadata
ZeroMetadata == [LastModified |-> 0, OriginalUrl |-> <<>>]
\* decoded values; a field missing from the JSON object decodes to its zero value
Metadatas == [LastModified : 0..MaxTime, OriginalUrl : Urls \cup {<<>>}]

VARIABLES
  pc,            \* place in the program, "exit" once the process has ended
  flagVersion,   \* --version flag
  conf,          \* package variable conf
  build,         \* Run: build
  eval,          \* Run: eval.Flake
  selfMetadata,  \* Run: selfMetadata
  hydraMetadata, \* Run: hydraMetadata
  flakeSpec,     \* Run: flakeSpec
  idx,           \* Run: position of the range loop over CanaryHosts
  calls,         \* history of external calls: [op, arg, res]
  rebuildCall,   \* arguments NixosRebuild was called with
  failedHost,    \* host logged by "Ping healthcheck failed"
  exitCode,      \* process exit status, NotExited while running
  exitSite,      \* which statement ended the process
  terminator,    \* the function that ended the process
  panicErr,      \* the error GetFlakeMetadata panicked with
  cmdLog,        \* environment: what each "nix flake metadata" run did
  down,          \* environment: canary hosts that do not answer ping
  bootConfig,    \* environment: the host's boot/running configuration
  rebooted       \* environment: a reboot has been triggered

vars == <<pc, flagVersion, conf, build, eval, selfMetadata, hydraMetadata,
          flakeSpec, idx, calls, rebuildCall, failedHost, exitCode, exitSite,
          terminator, panicErr, cmdLog, down, bootConfig, rebooted>>

InitialBootConfig == <<"c", "u", "r">>
NoRebuild == [operation |-> "", flake |-> <<>>, args |-> <<>>]

Init ==
  /\ pc = "PreRunE"
  /\ flagVersion \in BOOLEAN
  /\ conf = ZeroConfig
  /\ build = ZeroBuild
  /\ eval = ""
  /\ selfMetadata = ZeroMetadata
  /\ hydraMetadata = ZeroMetadata
  /\ flakeSpec = <<>>
  /\ idx = 1
  /\ calls = <<>>
  /\ rebuildCall = NoRebuild
  /\ failedHost = ""
  /\ exitCode = NotExited
  /\ exitSite = ""
  /\ terminator = ""
  /\ panicErr = ""
  /\ cmdLog = <<>>
  /\ down \in SUBSET CanaryNames
  /\ bootConfig = InitialBootConfig
  /\ rebooted = FALSE

\* ---- helpers ----
Pending == calls # <<>> /\ calls[Len(calls)].res = "pending"

Returned(res) == [calls EXCEPT ![Len(calls)].res = res]

\* the status each exit statement of the program ends the process with
ExitCodeAt_PingZero(site) ==
  CASE site \in {"version", "unfinished", "uptodate", "returned", "pingFailed"} -> ExitOk
    [] site \in {"initError", "invalid", "unsuccessful", "fatal"} -> ExitFail
    [] site = "panic" -> ExitPanic

ExitCodeAt(site) ==
  CASE site \in {"version", "unfinished", "uptodate", "returned"} -> ExitOk
    [] site \in {"initError", "invalid", "unsuccessful", "pingFailed", "fatal"} -> ExitFail
    [] site = "panic" -> ExitPanic

\* the function whose statement ends the process at an exit
TerminatorAt(site) ==
  CASE site \in {"version", "invalid"} -> "PreRunE"
    [] site = "initError" -> "main"
    [] site = "panic" -> "GetFlakeMetadata"
    [] OTHER -> "Run"

Exit(site) ==
  /\ pc' = "exit"
  /\ exitCode' = ExitCodeAt(site)
  /\ exitSite' = site
  /\ terminator' = TerminatorAt(site)

Running ==
  /\ exitCode' = exitCode
  /\ exitSite' = exitSite
  /\ terminator' = terminator

\* conf.Validate(): the required host name is present
Validate(c) == c.Host # <<>>

\* ---- PreRunE with the result of conf.Validate() ignored ----
PreRunE_NoValidate ==
  /\ pc = "PreRunE"
  /\ IF flagVersion
       THEN /\ Exit("version")
            /\ UNCHANGED conf
       ELSE \E c \in Configs, initErr \in BOOLEAN :
              IF initErr
                THEN /\ Exit("initError")
                     /\ UNCHANGED conf
                ELSE /\ conf' = c
                     /\ pc' = "GetLatestBuild"
                     /\ Running
  /\ UNCHANGED <<panicErr, cmdLog, flagVersion, build, eval, selfMetadata,
                 hydraMetadata, flakeSpec, idx, calls, rebuildCall, failedHost,
                 down, bootConfig, rebooted>>

\* ---- PreRunE ----
PreRunE ==
  /\ pc = "PreRunE"
  /\ IF flagVersion
       THEN /\ Exit("version")
            /\ UNCHANGED conf
       ELSE \E c \in Configs, initErr \in BOOLEAN :
              IF initErr
                THEN /\ Exit("initError")
                     /\ UNCHANGED conf
                ELSE /\ conf' = c
                     /\ IF Validate(c)
                          THEN pc' = "GetLatestBuild" /\ Running
                          ELSE Exit("invalid")
  /\ UNCHANGED <<panicErr, cmdLog, flagVersion, build, eval, selfMetadata, hydraMetadata,
                 flakeSpec, idx, calls, rebuildCall, failedHost, down,
                 bootConfig, rebooted>>

\* ---- external operations: what a call can return ----

\* hydra.HydraClient.GetLatestBuild: a build, or a network / parse failure
GetLatestBuildResults ==
  {[ok |-> FALSE, build |-> ZeroBuild]} \cup {[ok |-> TRUE, build |-> b] : b \in Builds}

\* hydra.HydraClient.GetEval: the flake of the evaluation, or a failure
GetEvalResults ==
  {[ok |-> FALSE, flake |-> ""]} \cup {[ok |-> TRUE, flake |-> f] : f \in FlakeRefs}

\* nix.GetFlakeMetadata: cmdErr is a nonzero exit of "nix flake metadata",
\* parseErr is json.Unmarshal rejecting the output, m is the decoded value
GetFlakeMetadata_IgnoreParseErr(cmdErr, parseErr, m) ==
  IF cmdErr THEN [panic |-> TRUE, err |-> "ExecutionError", metadata |-> ZeroMetadata]
  ELSE IF parseErr THEN [panic |-> FALSE, err |-> "", metadata |-> ZeroMetadata]
  ELSE [panic |-> FALSE, err |-> "", metadata |-> m]

GetFlakeMetadata_IgnoreCmdErr(cmdErr, parseErr, m) ==
  IF parseErr \/ cmdErr THEN
    IF cmdErr THEN [panic |-> FALSE, err |-> "", metadata |-> ZeroMetadata]
    ELSE [panic |-> TRUE, err |-> "ParseError", metadata |-> ZeroMetadata]
  ELSE [panic |-> FALSE, err |-> "", metadata |-> m]

GetFlakeMetadata_ReturnsOnError(cmdErr, parseErr, m) ==
  IF cmdErr \/ parseErr THEN [panic |-> FALSE, err |-> "", metadata |-> ZeroMetadata]
  ELSE [panic |-> FALSE, err |-> "", metadata |-> m]

\* the panic value is the error of cmd.Output (line 23) or of json.Unmarshal
\* (line 29)
GetFlakeMetadata(cmdErr, parseErr, m) ==
  IF cmdErr THEN [panic |-> TRUE, err |-> "ExecutionError", metadata |-> ZeroMetadata]
  ELSE IF parseErr THEN [panic |-> TRUE, err |-> "ParseError", metadata |-> ZeroMetadata]
  ELSE [panic |-> FALSE, err |-> "", metadata |-> m]

\* what one run of the nix command did: its exit status and whether
\* json.Unmarshal accepts its output
CmdRun(cmdErr, parseErr) ==
  [exit |-> IF cmdErr THEN "nonzero" ELSE "zero", wellFormed |-> ~parseErr]

\* healthcheck.Ping: TRUE when the host answers (err == nil)
Ping(h) == h \notin down

\* nix.NixosRebuild: success or a failed nixos-rebuild
NixosRebuildResults == BOOLEAN

\* ---- decisions taken in Run ----
BuildUnfinished_Greater(b) == b.Finished > FinishedTrue

BuildUnfinished(b) == b.Finished # FinishedTrue

BuildUnsuccessful_Less(b) == b.BuildStatus < StatusSuccess

BuildUnsuccessful(b) == b.BuildStatus # StatusSuccess

UpToDate_Strict(s, h) == s.LastModified > h.LastModified

UpToDate(s, h) == s.LastModified >= h.LastModified

\* fmt.Sprintf("%s#%s", url, host)
Sprintf_Swapped(url, host) == host \o <<"#">> \o url

Sprintf(url, host) == url \o <<"#">> \o host

\* the range loop over CanaryHosts: next host, or past the loop
LoopNext_SkipLast(c, i) == IF i < Len(c.CanaryHosts) THEN "Ping" ELSE "NixosRebuild"

LoopNext_RebootFirst(c, i) ==
  IF i <= Len(c.CanaryHosts) THEN "Ping"
  ELSE IF c.Reboot THEN "Reboot" ELSE "NixosRebuild"

LoopNext_EmptyStops(c, i) ==
  IF Len(c.CanaryHosts) = 0 THEN "exit"
  ELSE IF i <= Len(c.CanaryHosts) THEN "Ping" ELSE "NixosRebuild"

LoopNext(c, i) == IF i <= Len(c.CanaryHosts) THEN "Ping" ELSE "NixosRebuild"

RebootWanted_Always(c) == TRUE

RebootWanted(c) == c.Reboot

\* ---- entering an external call ----
CallSites == {"GetLatestBuild", "GetEval", "GetSelfMetadata", "GetHydraMetadata",
              "Ping", "NixosRebuild", "Reboot"}

Callee(loc) ==
  IF loc \in {"GetSelfMetadata", "GetHydraMetadata"} THEN "GetFlakeMetadata" ELSE loc

CallArg_Swapped(loc) ==
  CASE loc = "GetSelfMetadata" -> eval
    [] loc = "GetHydraMetadata" -> "self"
    [] loc = "Ping" -> conf.CanaryHosts[idx]
    [] OTHER -> ""

CallArg(loc) ==
  CASE loc = "GetSelfMetadata" -> "self"
    [] loc = "GetHydraMetadata" -> eval
    [] loc = "Ping" -> conf.CanaryHosts[idx]
    [] OTHER -> ""

Call ==
  /\ pc \in CallSites
  /\ ~Pending
  /\ calls' = Append(calls, [op |-> Callee(pc), arg |-> CallArg(pc), res |-> "pending"])
  /\ rebuildCall' = IF pc = "NixosRebuild"
                      THEN [operation |-> conf.Operation, flake |-> flakeSpec,
                            args |-> conf.Args]
                      ELSE rebuildCall
  /\ UNCHANGED <<panicErr, cmdLog, terminator, pc, flagVersion, conf, build, eval, selfMetadata, hydraMetadata,
                 flakeSpec, idx, failedHost, exitCode, exitSite, down,
                 bootConfig, rebooted>>

\* ---- root.go:72-80 ----
ReturnGetLatestBuild ==
  /\ pc = "GetLatestBuild"
  /\ Pending
  /\ \E r \in GetLatestBuildResults :
       IF ~r.ok
         THEN /\ calls' = Returned("err")
              /\ Exit("fatal")
              /\ UNCHANGED build
         ELSE /\ calls' = Returned("ok")
              /\ build' = r.build
              /\ IF BuildUnfinished(r.build) THEN Exit("unfinished")
                 ELSE IF BuildUnsuccessful(r.build) THEN Exit("unsuccessful")
                 ELSE pc' = "GetEval" /\ Running
  /\ UNCHANGED <<panicErr, cmdLog, flagVersion, conf, eval, selfMetadata, hydraMetadata, flakeSpec,
                 idx, rebuildCall, failedHost, down, bootConfig, rebooted>>

\* ---- root.go:82 ----
ReturnGetEval ==
  /\ pc = "GetEval"
  /\ Pending
  /\ \E r \in GetEvalResults :
       IF ~r.ok
         THEN /\ calls' = Returned("err")
              /\ Exit("fatal")
              /\ UNCHANGED eval
         ELSE /\ calls' = Returned("ok")
              /\ eval' = r.flake
              /\ pc' = "GetSelfMetadata"
              /\ Running
  /\ UNCHANGED <<panicErr, cmdLog, flagVersion, conf, build, selfMetadata, hydraMetadata, flakeSpec,
                 idx, rebuildCall, failedHost, down, bootConfig, rebooted>>

\* ---- root.go:85 ----
ReturnGetSelfMetadata ==
  /\ pc = "GetSelfMetadata"
  /\ Pending
  /\ \E cmdErr \in BOOLEAN, parseErr \in BOOLEAN, m \in Metadatas :
       LET r == GetFlakeMetadata(cmdErr, parseErr, m) IN
       /\ calls' = Returned(IF cmdErr \/ parseErr THEN "err" ELSE "ok")
       /\ cmdLog' = Append(cmdLog, CmdRun(cmdErr, parseErr))
       /\ panicErr' = r.err
       /\ IF r.panic
         THEN /\ Exit("panic")
              /\ UNCHANGED selfMetadata
         ELSE /\ selfMetadata' = r.metadata
              /\ pc' = "GetHydraMetadata"
              /\ Running
  /\ UNCHANGED <<flagVersion, conf, build, eval, hydraMetadata, flakeSpec,
                 idx, rebuildCall, failedHost, down, bootConfig, rebooted>>

\* ---- root.go:87-96 ----
ReturnGetHydraMetadata ==
  /\ pc = "GetHydraMetadata"
  /\ Pending
  /\ \E cmdErr \in BOOLEAN, parseErr \in BOOLEAN, m \in Metadatas :
       LET r == GetFlakeMetadata(cmdErr, parseErr, m) IN
       /\ calls' = Returned(IF cmdErr \/ parseErr THEN "err" ELSE "ok")
       /\ cmdLog' = Append(cmdLog, CmdRun(cmdErr, parseErr))
       /\ panicErr' = r.err
       /\ IF r.panic
         THEN /\ Exit("panic")
              /\ UNCHANGED <<hydraMetadata, flakeSpec>>
         ELSE /\ hydraMetadata' = r.metadata
              /\ IF UpToDate(selfMetadata, r.metadata)
                   THEN /\ Exit("uptodate")
                        /\ UNCHANGED flakeSpec
                   ELSE /\ flakeSpec' = Sprintf(r.metadata.OriginalUrl, conf.Host)
                        /\ pc' = LoopNext(conf, idx)
                        /\ Running
  /\ UNCHANGED <<flagVersion, conf, build, eval, selfMetadata, idx, rebuildCall,
                 failedHost, down, bootConfig, rebooted>>

\* ---- root.go:96-102 with the exit on a failed ping left out ----
ReturnPing_NoExit ==
  /\ pc = "Ping"
  /\ Pending
  /\ calls[Len(calls)].op = "Ping"
  /\ LET h == conf.CanaryHosts[idx] IN
       /\ calls' = Returned(IF Ping(h) THEN "ok" ELSE "err")
       /\ failedHost' = IF Ping(h) THEN failedHost ELSE h
       /\ idx' = idx + 1
       /\ pc' = LoopNext(conf, idx + 1)
       /\ Running
  /\ UNCHANGED <<panicErr, cmdLog, flagVersion, conf, build, eval, selfMetadata, hydraMetadata,
                 flakeSpec, rebuildCall, down, bootConfig, rebooted>>

\* ---- root.go:96-102 with a failed ping tried once more ----
ReturnPing_RetryOnce ==
  /\ pc = "Ping"
  /\ Pending
  /\ calls[Len(calls)].op = "Ping"
  /\ LET h == conf.CanaryHosts[idx]
         pings == Cardinality({i \in DOMAIN calls : calls[i].op = "Ping"})
     IN
       IF ~Ping(h)
         THEN /\ calls' = Returned("err")
              /\ IF pings = idx
                   THEN pc' = "Ping" /\ Running /\ UNCHANGED failedHost
                   ELSE failedHost' = h /\ Exit("pingFailed")
              /\ UNCHANGED idx
         ELSE /\ calls' = Returned("ok")
              /\ idx' = idx + 1
              /\ pc' = LoopNext(conf, idx + 1)
              /\ Running
              /\ UNCHANGED failedHost
  /\ UNCHANGED <<panicErr, cmdLog, flagVersion, conf, build, eval, selfMetadata,
                 hydraMetadata, flakeSpec, rebuildCall, down, bootConfig, rebooted>>

\* ---- root.go:96-102 with a loop that pings every host a second time ----
ReturnPing_Repeats ==
  /\ pc = "Ping"
  /\ Pending
  /\ calls[Len(calls)].op = "Ping"
  /\ LET h == conf.CanaryHosts[idx]
         pings == Cardinality({i \in DOMAIN calls : calls[i].op = "Ping"})
         next == IF pings < 2 * idx THEN idx ELSE idx + 1
     IN
       IF ~Ping(h)
         THEN /\ calls' = Returned("err")
              /\ failedHost' = h
              /\ Exit("pingFailed")
              /\ UNCHANGED idx
         ELSE /\ calls' = Returned("ok")
              /\ idx' = next
              /\ pc' = LoopNext(conf, next)
              /\ Running
              /\ UNCHANGED failedHost
  /\ UNCHANGED <<panicErr, cmdLog, flagVersion, conf, build, eval, selfMetadata,
                 hydraMetadata, flakeSpec, rebuildCall, down, bootConfig, rebooted>>

\* ---- root.go:96-102 ----
ReturnPing ==
  /\ pc = "Ping"
  /\ Pending
  /\ calls[Len(calls)].op = "Ping"
  /\ LET h == conf.CanaryHosts[idx] IN
       IF ~Ping(h)
         THEN /\ calls' = Returned("err")
              /\ failedHost' = h
              /\ Exit("pingFailed")
              /\ UNCHANGED idx
         ELSE /\ calls' = Returned("ok")
              /\ idx' = idx + 1
              /\ pc' = LoopNext(conf, idx + 1)
              /\ Running
              /\ UNCHANGED failedHost
  /\ UNCHANGED <<panicErr, cmdLog, flagVersion, conf, build, eval, selfMetadata, hydraMetadata,
                 flakeSpec, rebuildCall, down, bootConfig, rebooted>>

\* ---- root.go:105-112 ----
ReturnNixosRebuild ==
  /\ pc = "NixosRebuild"
  /\ Pending
  /\ \E ok \in NixosRebuildResults :
       IF ~ok
         THEN /\ calls' = Returned("err")
              /\ Exit("fatal")
              /\ UNCHANGED bootConfig
         ELSE /\ calls' = Returned("ok")
              /\ bootConfig' = rebuildCall.flake
              /\ IF RebootWanted(conf)
                   THEN pc' = "Reboot" /\ Running
                   ELSE Exit("returned")
  /\ UNCHANGED <<panicErr, cmdLog, flagVersion, conf, build, eval, selfMetadata, hydraMetadata,
                 flakeSpec, idx, rebuildCall, failedHost, down, rebooted>>

\* ---- root.go:110-112: nix.Reboot returns and Run returns ----
ReturnReboot ==
  /\ pc = "Reboot"
  /\ Pending
  /\ calls' = Returned("ok")
  /\ rebooted' = TRUE
  /\ Exit("returned")
  /\ UNCHANGED <<panicErr, cmdLog, flagVersion, conf, build, eval, selfMetadata, hydraMetadata,
                 flakeSpec, idx, rebuildCall, failedHost, down, bootConfig>>

\* ---- root.go:110: the reboot ends the process before nix.Reboot returns ----
RebootKills ==
  /\ pc = "Reboot"
  /\ Pending
  /\ rebooted' = TRUE
  /\ pc' = "exit"
  /\ exitSite' = "killed"
  /\ terminator' = "reboot"
  /\ UNCHANGED <<panicErr, cmdLog, flagVersion, conf, build, eval, selfMetadata, hydraMetadata,
                 flakeSpec, idx, calls, rebuildCall, failedHost, exitCode, down,
                 bootConfig>>

Next ==
  \/ PreRunE
  \/ Call
  \/ ReturnGetLatestBuild
  \/ ReturnGetEval
  \/ ReturnGetSelfMetadata
  \/ ReturnGetHydraMetadata
  \/ ReturnPing
  \/ ReturnNixosRebuild
  \/ ReturnReboot
  \/ RebootKills

Spec == Init /\ [][Next]_vars

\* the process keeps running and every external call returns
FairSpec == Spec /\ WF_vars(Next)

TypeOK ==
  /\ pc \in CallSites \cup {"PreRunE", "exit"}
  /\ conf \in Configs \cup {ZeroConfig}
  /\ build \in Builds
  /\ idx \in 1..(MaxHosts + 1)
  /\ exitCode \in {NotExited, ExitOk, ExitFail, ExitPanic}

\* ---- the history of a run, read from calls ----
Called(op) == \E i \in DOMAIN calls : calls[i].op = op

Count(op) == Cardinality({i \in DOMAIN calls : calls[i].op = op})

Succeeded(op) == \E i \in DOMAIN calls : calls[i].op = op /\ calls[i].res = "ok"

Failed(op) == \E i \in DOMAIN calls : calls[i].op = op /\ calls[i].res = "err"

AnyFailed == \E i \in DOMAIN calls : calls[i].res = "err"

SelfFetch(i) == calls[i].op = "GetFlakeMetadata" /\ calls[i].arg = "self"

TargetFetch(i) == calls[i].op = "GetFlakeMetadata" /\ calls[i].arg # "self"

SelfFetched == \E i \in DOMAIN calls : SelfFetch(i) /\ calls[i].res = "ok"

TargetFetched == \E i \in DOMAIN calls : TargetFetch(i) /\ calls[i].res = "ok"

BuildFetched == Succeeded("GetLatestBuild")

BuildFinished == build.Finished = FinishedTrue

\* the canary hosts pinged so far, in the order of the pings
RECURSIVE ProbedOf(_)
ProbedOf(log) ==
  IF log = <<>> THEN <<>>
  ELSE LET rest == ProbedOf(SubSeq(log, 1, Len(log) - 1))
           last == log[Len(log)]
       IN IF last.op = "Ping" THEN Append(rest, last.arg) ELSE rest

Probed == ProbedOf(calls)

\* position of the first canary host that is down, 0 when all answer
FirstDown(hosts) ==
  IF \E j \in DOMAIN hosts : hosts[j] \in down
    THEN CHOOSE j \in DOMAIN hosts :
           hosts[j] \in down /\ \A k \in 1..(j - 1) : hosts[k] \notin down
    ELSE 0

Exited == pc = "exit" /\ exitCode # NotExited

\* terminal outcomes of the orchestration, by what happened in the run
NoopExit ==
  /\ Exited
  /\ \/ BuildFetched /\ ~BuildFinished
     \/ SelfFetched /\ TargetFetched
          /\ hydraMetadata.LastModified <= selfMetadata.LastModified

FailureExit ==
  /\ Exited
  /\ \/ BuildFetched /\ BuildFinished /\ build.BuildStatus # StatusSuccess
     \/ Failed("Ping")

Fatal ==
  /\ Exited
  /\ \/ Failed("GetLatestBuild")
     \/ Failed("GetEval")
     \/ Failed("GetFlakeMetadata")
     \/ Failed("NixosRebuild")

SuccessExit == Exited /\ Succeeded("NixosRebuild")

\* ---- C1 ----
\* C1: the upgrade (nix.NixosRebuild) is invoked at most once, and only when
\* the latest build is finished with status 0, the target timestamp is
\* strictly greater than the self timestamp, and every canary host has been
\* pinged and has answered.
ExecuteOnceWhenEligible ==
  /\ Count("NixosRebuild") <= 1
  /\ Called("NixosRebuild") =>
       /\ BuildFetched
       /\ build.Finished = FinishedTrue
       /\ build.BuildStatus = StatusSuccess
       /\ SelfFetched /\ TargetFetched
       /\ hydraMetadata.LastModified > selfMetadata.LastModified
       /\ Probed = conf.CanaryHosts
       /\ \A i \in DOMAIN calls : calls[i].op = "Ping" => calls[i].res = "ok"

ExecuteAfterTwoCanaries ==
  /\ Called("NixosRebuild")
  /\ Len(conf.CanaryHosts) >= 2

\* ---- C2 ----
\* C2: Reboot is invoked exactly when NixosRebuild was invoked and succeeded
\* and the reboot flag is set; it is invoked at most once, after the
\* successful NixosRebuild, and never on a run that ends as no-op, as
\* failure or as fatal error (a failed NixosRebuild included).
RebootIffExecuteSucceeded ==
  /\ Count("Reboot") <= 1
  /\ Called("Reboot") =>
       /\ conf.Reboot
       /\ \E i \in DOMAIN calls :
            /\ calls[i].op = "NixosRebuild" /\ calls[i].res = "ok"
            /\ \A j \in DOMAIN calls : calls[j].op = "Reboot" => i < j
  /\ (pc = "exit" /\ Succeeded("NixosRebuild") /\ conf.Reboot) => Called("Reboot")
  /\ (NoopExit \/ FailureExit \/ Fatal) => ~Called("Reboot") /\ ~rebooted

RebootAfterExecute ==
  /\ pc = "exit"
  /\ Called("Reboot")
  /\ Succeeded("NixosRebuild")

\* ---- C3 ----
\* C3: when the latest build is not finished, whatever its status, the run
\* ends with exit status 0 at the "unfinished" exit and GetLatestBuild is the
\* only external call made: no GetEval, metadata fetch, ping, rebuild, reboot.
UnfinishedBuildIsNoop ==
  (BuildFetched /\ build.Finished # FinishedTrue) =>
     /\ pc = "exit"
     /\ exitCode = ExitOk
     /\ exitSite = "unfinished"
     /\ NoopExit
     /\ Len(calls) = 1
     /\ ~Called("GetEval") /\ ~Called("GetFlakeMetadata") /\ ~Called("Ping")
     /\ ~Called("NixosRebuild") /\ ~Called("Reboot")

UnfinishedFailedBuildSeen ==
  /\ BuildFetched
  /\ build.Finished = 0
  /\ build.BuildStatus # StatusSuccess
  /\ pc = "exit"

\* ---- C4 ----
\* C4: when the latest build is finished with a status other than 0, the run
\* ends with a nonzero exit status at the "unsuccessful" exit and makes no
\* external call after GetLatestBuild; GetEval is only ever called for a
\* build that is finished with status 0.
FailedBuildIsFailure ==
  /\ (BuildFetched /\ build.Finished = FinishedTrue /\ build.BuildStatus # StatusSuccess) =>
       /\ pc = "exit"
       /\ exitCode \notin {ExitOk, NotExited}
       /\ exitSite = "unsuccessful"
       /\ Len(calls) = 1
  /\ Called("GetEval") =>
       /\ BuildFetched
       /\ build.Finished = FinishedTrue
       /\ build.BuildStatus = StatusSuccess

FailedBuildSeen ==
  /\ BuildFetched
  /\ build.Finished = FinishedTrue
  /\ build.BuildStatus # StatusSuccess
  /\ pc = "exit"

\* ---- C5 ----
\* C5: the freshness comparison is strict: once both metadata are fetched, a
\* target timestamp equal to or less than the self timestamp ends the run
\* with exit status 0 without any ping or rebuild; the canary loop is reached
\* only with a target timestamp greater than the self timestamp.
FreshnessIsStrict ==
  /\ (SelfFetched /\ TargetFetched
        /\ hydraMetadata.LastModified <= selfMetadata.LastModified) =>
       /\ pc = "exit"
       /\ exitCode = ExitOk
       /\ exitSite = "uptodate"
       /\ ~Called("Ping") /\ ~Called("NixosRebuild") /\ ~Called("Reboot")
  /\ (pc \in {"Ping", "NixosRebuild", "Reboot"} \/ Called("Ping") \/ Called("NixosRebuild")) =>
       /\ SelfFetched /\ TargetFetched
       /\ hydraMetadata.LastModified > selfMetadata.LastModified

EqualTimestampsSeen ==
  /\ SelfFetched /\ TargetFetched
  /\ hydraMetadata.LastModified = selfMetadata.LastModified
  /\ hydraMetadata.LastModified > 0
  /\ pc = "exit"

\* ---- C6 ----
\* C6: the canary hosts are pinged in list order and the loop stops at the
\* first host that does not answer: the hosts pinged are always a prefix of
\* the list, every pinged host but the last answered, and once the loop is
\* over the hosts pinged are exactly the list up to and including the first
\* host that is down, which is the host reported.
HealthGateDone ==
  \/ exitSite = "pingFailed"
  \/ pc \in {"NixosRebuild", "Reboot"}
  \/ Called("NixosRebuild")

HealthGateFailFast ==
  LET hosts == conf.CanaryHosts
      ff == FirstDown(hosts)
  IN /\ Len(Probed) <= Len(hosts)
     /\ Probed = SubSeq(hosts, 1, Len(Probed))
     /\ \A j \in 1..(Len(Probed) - 1) : Probed[j] \notin down
     /\ \A j \in DOMAIN hosts : (ff # 0 /\ j > ff) => Len(Probed) < j
     /\ HealthGateDone =>
          /\ Probed = (IF ff = 0 THEN hosts ELSE SubSeq(hosts, 1, ff))
          /\ (ff # 0) <=> (exitSite = "pingFailed")
          /\ failedHost = (IF ff = 0 THEN "" ELSE hosts[ff])

SecondOfThreeFails ==
  /\ Len(conf.CanaryHosts) = 3
  /\ FirstDown(conf.CanaryHosts) = 2
  /\ exitSite = "pingFailed"
  /\ Len(Probed) = 2

\* ---- C7 ----
\* C7: every terminal outcome has the stated exit status: a no-op exit
\* (build unfinished, or target not newer) is 0, a success exit (rebuild
\* succeeded) is 0, a failure exit (build status nonzero, or a failed ping)
\* is nonzero, a fatal error (failed GetLatestBuild, GetEval,
\* GetFlakeMetadata or NixosRebuild) is nonzero; no run exits 0 after a
\* failed build, a failed ping or a failed external call.
ExitCodesMatchOutcomes ==
  /\ NoopExit => exitCode = ExitOk
  /\ SuccessExit => exitCode = ExitOk
  /\ FailureExit => exitCode # ExitOk
  /\ Fatal => exitCode # ExitOk
  /\ (pc = "exit" /\ exitCode = ExitOk) =>
       /\ ~AnyFailed
       /\ ~(BuildFetched /\ BuildFinished /\ build.BuildStatus # StatusSuccess)
  /\ (pc = "exit" /\ AnyFailed) => exitCode \notin {ExitOk, NotExited}

FailedPingExitSeen ==
  /\ pc = "exit"
  /\ Failed("Ping")
  /\ exitCode = ExitFail

\* ---- C8 ----
\* C8: every failure ends the run at once: a failed external call is the
\* last external call of the run and the process has ended; a failed self
\* metadata fetch means the target metadata is never fetched, a failed
\* target metadata fetch means no ping and no rebuild.
FailureIsTerminal ==
  /\ \A i \in DOMAIN calls : calls[i].res = "err" => (i = Len(calls) /\ pc = "exit")
  /\ (\E i \in DOMAIN calls : SelfFetch(i) /\ calls[i].res = "err") =>
       ~(\E j \in DOMAIN calls : TargetFetch(j))
  /\ (\E i \in DOMAIN calls : TargetFetch(i) /\ calls[i].res = "err") =>
       ~Called("Ping") /\ ~Called("NixosRebuild")

TargetFetchFailedSeen ==
  /\ \E i \in DOMAIN calls : TargetFetch(i) /\ calls[i].res = "err"
  /\ pc = "exit"
  /\ Len(conf.CanaryHosts) > 0

\* ---- C9 ----
\* C9: as long as NixosRebuild has not been invoked, the boot / running
\* configuration of the host is the one the run started with and no reboot
\* has been triggered; this holds in particular when the run has ended.
NoMutationBeforeExecute ==
  ~Called("NixosRebuild") =>
     /\ bootConfig = InitialBootConfig
     /\ ~rebooted
     /\ ~Called("Reboot")

EndedBeforeExecuteWithRebootFlag ==
  /\ pc = "exit"
  /\ ~Called("NixosRebuild")
  /\ conf.Reboot
  /\ exitSite = "pingFailed"

\* ---- C10 ----
\* place of an external call in the fixed order of Run
CallRank(c) ==
  CASE c.op = "GetLatestBuild" -> 1
    [] c.op = "GetEval" -> 2
    [] c.op = "GetFlakeMetadata" /\ c.arg = "self" -> 3
    [] c.op = "GetFlakeMetadata" /\ c.arg # "self" -> 4
    [] c.op = "Ping" -> 5
    [] c.op = "NixosRebuild" -> 6
    [] c.op = "Reboot" -> 7

PcRank(loc) ==
  CASE loc = "PreRunE" -> 0
    [] loc = "GetLatestBuild" -> 1
    [] loc = "GetEval" -> 2
    [] loc = "GetSelfMetadata" -> 3
    [] loc = "GetHydraMetadata" -> 4
    [] loc = "Ping" -> 5
    [] loc = "NixosRebuild" -> 6
    [] loc = "Reboot" -> 7
    [] loc = "exit" -> 8

CallsInOrder ==
  /\ \A i \in 1..(Len(calls) - 1) :
       /\ CallRank(calls[i]) <= CallRank(calls[i + 1])
       /\ CallRank(calls[i]) = CallRank(calls[i + 1]) => calls[i].op = "Ping"
       /\ calls[i].res # "pending"
  /\ \A i \in DOMAIN calls :
       \A r \in 1..(CallRank(calls[i]) - 1) :
          r # 5 => \E j \in 1..(i - 1) : CallRank(calls[j]) = r

\* C10: the external calls of a run occur in the order GetLatestBuild,
\* GetEval, GetFlakeMetadata(self), GetFlakeMetadata(target), pings,
\* NixosRebuild, Reboot, each after all the earlier ones; a call starts only
\* when the previous one has returned, so at most one is in flight; the run
\* never moves back to an earlier step.
FixedOrderNoOverlap ==
  /\ []CallsInOrder
  /\ [][PcRank(pc') >= PcRank(pc)]_vars

FullPipelineSeen ==
  /\ pc = "exit"
  /\ Called("Reboot")
  /\ Len(Probed) >= 2

\* ---- C11 ----
\* C11: with an empty canary host list, a finished successful build and a
\* target strictly newer than self, the run pings nobody and goes on to
\* NixosRebuild: right after the comparison it stands at the NixosRebuild
\* call, and it never ends without having made that call.
EmptyCanaryListPasses ==
  (/\ conf.CanaryHosts = <<>>
   /\ BuildFetched /\ BuildFinished /\ build.BuildStatus = StatusSuccess
   /\ SelfFetched /\ TargetFetched
   /\ hydraMetadata.LastModified > selfMetadata.LastModified) =>
     /\ ~Called("Ping")
     /\ Probed = <<>>
     /\ pc \in {"NixosRebuild", "Reboot", "exit"}
     /\ pc # "NixosRebuild" => Called("NixosRebuild")

EmptyCanaryListExecuted ==
  /\ conf.CanaryHosts = <<>>
  /\ ~Called("Ping")
  /\ Succeeded("NixosRebuild")

\* ---- C12 ----
\* C12: whenever NixosRebuild is invoked, the flake it is given is the
\* original url of the target (hydra) metadata, then "#", then the configured
\* host, and the operation and the extra arguments are the configured ones in
\* their configured order.
ExecuteGetsTargetReference ==
  Called("NixosRebuild") =>
     /\ rebuildCall.flake = hydraMetadata.OriginalUrl \o <<"#">> \o conf.Host
     /\ rebuildCall.flake[Len(hydraMetadata.OriginalUrl) + 1] = "#"
     /\ SubSeq(rebuildCall.flake, 1, Len(hydraMetadata.OriginalUrl)) = hydraMetadata.OriginalUrl
     /\ rebuildCall.operation = conf.Operation
     /\ rebuildCall.args = conf.Args

ExecuteWithDistinctUrls ==
  /\ Called("NixosRebuild")
  /\ selfMetadata.OriginalUrl # hydraMetadata.OriginalUrl
  /\ Len(rebuildCall.args) = 2
  /\ rebuildCall.operation = "switch"

\* ---- C13 ----
\* the GetFlakeMetadata calls that have returned, in order
Fetches == SelectSeq(calls, LAMBDA c : c.op = "GetFlakeMetadata" /\ c.res # "pending")

ComparisonMade ==
  \/ exitSite = "uptodate"
  \/ pc \in {"Ping", "NixosRebuild", "Reboot"}
  \/ Called("Ping")
  \/ Called("NixosRebuild")

\* C13: GetFlakeMetadata yields a value exactly when the nix command exited
\* with status zero and json.Unmarshal accepted its output; a nonzero exit
\* ends it with the execution error and an output that does not parse ends
\* it with the parse error, the failed fetch is the last thing the run does,
\* and the freshness comparison is only made after two fetches that both
\* exited zero and parsed.
MetadataOnlyOnSuccess ==
  /\ Len(Fetches) = Len(cmdLog)
  /\ \A k \in DOMAIN cmdLog :
       /\ (Fetches[k].res = "ok") <=> (cmdLog[k].exit = "zero" /\ cmdLog[k].wellFormed)
       /\ cmdLog[k].exit = "nonzero" =>
            /\ k = Len(cmdLog) /\ pc = "exit" /\ exitSite = "panic"
            /\ panicErr = "ExecutionError"
            /\ ~ComparisonMade
       /\ (cmdLog[k].exit = "zero" /\ ~cmdLog[k].wellFormed) =>
            /\ k = Len(cmdLog) /\ pc = "exit" /\ exitSite = "panic"
            /\ panicErr = "ParseError"
            /\ ~ComparisonMade
  /\ ComparisonMade =>
       /\ Len(cmdLog) = 2
       /\ \A k \in DOMAIN cmdLog : cmdLog[k].exit = "zero" /\ cmdLog[k].wellFormed
       /\ panicErr = ""

TargetOutputMalformedSeen ==
  /\ Len(cmdLog) = 2
  /\ cmdLog[2].exit = "zero"
  /\ ~cmdLog[2].wellFormed
  /\ panicErr = "ParseError"

\* ---- C14 ----
\* C14 as stated: no component other than the orchestrator (the root command)
\* ends the process; every exit is taken by PreRunE / Run, or is the return
\* of an error to main.
OrchestratorTakesEveryExit ==
  Exited => terminator \in {"Run", "PreRunE", "main"}

\* C14 amended: GetFlakeMetadata returns no failure to Run: when its command
\* fails or its output does not parse it ends the process itself by a panic;
\* a failed ping is returned to Run, and the exits for an unfinished build, a
\* failed build, a target that is not newer, a failed ping and the normal
\* return are taken by Run.
MetadataProviderEndsProcessItself ==
  /\ Failed("GetFlakeMetadata") =>
       /\ pc = "exit"
       /\ exitSite = "panic"
       /\ exitCode = ExitPanic
       /\ panicErr # ""
       /\ terminator = "GetFlakeMetadata"
  /\ Exited => (terminator = "GetFlakeMetadata" <=> Failed("GetFlakeMetadata"))
  /\ Failed("Ping") => terminator = "Run" /\ exitSite = "pingFailed"
  /\ exitSite \in {"unfinished", "unsuccessful", "uptodate", "pingFailed", "returned"} =>
       terminator = "Run"

SelfFetchPanicSeen ==
  /\ Failed("GetFlakeMetadata")
  /\ Len(cmdLog) = 1
  /\ terminator = "GetFlakeMetadata"

\* ---- C15 ----
\* C15: nothing is retried: GetLatestBuild and GetEval are called at most
\* once, the self and the target metadata are fetched at most once each, and
\* the k-th ping of a run is the ping of the k-th canary host, so no position
\* of the list is pinged twice, whether calls succeed or fail.
NoRetries ==
  /\ Count("GetLatestBuild") <= 1
  /\ Count("GetEval") <= 1
  /\ Cardinality({i \in DOMAIN calls : SelfFetch(i)}) <= 1
  /\ Cardinality({i \in DOMAIN calls : TargetFetch(i)}) <= 1
  /\ Len(Probed) <= Len(conf.CanaryHosts)
  /\ \A k \in DOMAIN Probed : Probed[k] = conf.CanaryHosts[k]
  /\ Count("Ping") <= idx

FailedPingNotRetried ==
  /\ pc = "exit"
  /\ Failed("Ping")
  /\ conf.CanaryHosts = <<"c1", "c1", "c2">>
  /\ Len(Probed) = 1

\* ---- C16 ----
\* C16: when every external call returns, a run that has entered the
\* pipeline reaches a terminal outcome or has invoked Reboot; it never makes
\* more than 6 external calls plus one per canary host; and when Reboot
\* returns the run has exited with success.
RunEndsWithinBound ==
  /\ [](Len(calls) <= 6 + Len(conf.CanaryHosts))
  /\ []((Called("Reboot") /\ ~Pending) => SuccessExit /\ exitCode = ExitOk)
  /\ (pc = "GetLatestBuild") ~>
       (NoopExit \/ SuccessExit \/ FailureExit \/ Fatal \/ Called("Reboot"))

LongestRunSeen ==
  /\ pc = "exit"
  /\ Len(conf.CanaryHosts) = MaxHosts
  /\ Len(calls) = 6 + MaxHosts
  /\ exitSite = "returned"

\* ---- C17 ----
\* C17: the pipeline never starts without a validated configuration: with
\* the version flag the process exits 0, a failed configuration
\* initialisation returns the error, a failed validation exits 1, and in
\* these cases no external call is ever made; every external call is made
\* with a configuration that passed Validate.
PipelineNeedsValidConfig ==
  /\ flagVersion =>
       /\ calls = <<>>
       /\ pc \in {"PreRunE", "exit"}
       /\ pc = "exit" => exitSite = "version" /\ exitCode = ExitOk
  /\ exitSite = "initError" =>
       /\ pc = "exit" /\ terminator = "main" /\ calls = <<>> /\ conf = ZeroConfig
  /\ exitSite = "invalid" =>
       /\ pc = "exit" /\ exitCode = ExitFail /\ calls = <<>> /\ ~Validate(conf)
  /\ (pc # "PreRunE" /\ ~Validate(conf)) => pc = "exit" /\ calls = <<>>
  /\ (calls # <<>> \/ pc \in CallSites) => Validate(conf) /\ ~flagVersion

InvalidConfigSeen ==
  /\ exitSite = "invalid"
  /\ conf.Host = <<>>
  /\ conf.CanaryHosts # <<>>
  /\ conf.Reboot
====
